---- MODULE Spec2Model ----
(***************************************************************************)
(* Model of the round engine of the letter game in                         *)
(* src/src/components/GamePlay.tsx (first component of the file, lines     *)
(* 1-683): round generation, click resolution, the timer-driven round      *)
(* lifecycle and the score.                                                *)
(*                                                                         *)
(* React semantics used by the model                                       *)
(*  - A handler reads the state of the render it was created in.  Events   *)
(*    delivered by the browser run in separate tasks and React commits the *)
(*    render of one task before the next task's handler runs, so a handler *)
(*    invoked by an event reads the current state.                         *)
(*  - A setTimeout callback keeps the closures of the render in which it   *)
(*    was scheduled: the values of preparingNewRound, gameActive, width    *)
(*    and height it reads are the ones of that render (field cl of a timer *)
(*    record), whereas functional updates (setScore(prev => ...),           *)
(*    setCircles(prev => ...)) read the current state.                     *)
(*  - Timers may fire in any order (delays are not modelled).              *)
(*  - Lengths are integers in units of 1/480 px, which makes the bounds    *)
(*    (multiples of 1/40 px), minDistance (multiples of 1/5 px) and the    *)
(*    grid cell centres (for gridSize 2 and 3) exact.                      *)
(***************************************************************************)
EXTENDS Integers, Sequences, FiniteSets, Bags, TLC

VARIABLES
    circles,                \* useState<Circle[]>([])
    targetLetter,           \* useState<LetterType | null>(null)
    score,                  \* useState(0)
    width,                  \* useState(0)
    height,                 \* useState(0)
    gameActive,             \* useState(true)
    showSubmitForm,         \* useState(false)
    processingClick,        \* useState(false)
    preparingNewRound,      \* useState(false)
    newRoundButtonDisabled, \* useState(false)
    timers,                 \* bag of pending setTimeout callbacks
    lastEvent,              \* history: the event handled by the last step
    hitsAccepted,           \* history: number of accepted Hit clicks
    inFlight,               \* history: clicks accepted since the last target
                            \* commit, as [hits, misses]
    gens,                   \* history: round generations since the last
                            \* accepted click or new-round request
    placing,                \* the locals of generateNewRound's forEach and of
                            \* the generateValidPosition call it is in
    speech,                 \* window.speechSynthesis: whether the browser has
                            \* it, the utterance it holds, whether that one
                            \* has started, and (history) the letter passed
                            \* to speak() in the last step
    form,                   \* the submit form: playerName, submitError,
                            \* submitting, the submitScore calls in flight,
                            \* whether router.push("/") has been called, and
                            \* (history) the score of the call that failed
                            \* and has not been followed by another call
    call                    \* a call of submitScore, getTopScores or
                            \* shuffleArray that is followed on its own

vars == <<circles, targetLetter, score, width, height, gameActive,
          showSubmitForm, processingClick, preparingNewRound,
          newRoundButtonDisabled, timers, lastEvent, hitsAccepted, inFlight,
          gens, placing, speech, form, call>>

---------------------------------------------------------------------------
(* Bounds of the model *)

\* number of letters of LETTERS that the model uses (a prefix of the list)
NumLetters == 3
\* number of circles per round in the model (CIRCLES_PER_ROUND is 15)
MaxCircles == 2
\* Math.random() yields k / RandDen for a numerator k in 0..RandDen-1
RandDen == 4
\* accepted Hit clicks per behaviour
MaxHits == 1
\* handler invocations of one render that can share an event tick
MaxSameTick == 2
\* pending timers up to which several invocations share an event tick
MaxPending == 4
\* Repeat Letter is clicked while fewer retry timers are pending
MaxRetries == 1
\* rows in the reply of the scores store to a select
MaxRows == 2
\* length of the arrays passed to shuffleArray
MaxArray == 3

---------------------------------------------------------------------------
(* Constants of the program *)

NULL == "null"

ALL_LETTERS == <<"b", "c", "d", "e", "f", "g", "h", "k", "m",
                 "n", "p", "r", "s", "t", "w", "x", "y", "z">>

LETTERS == SubSeq(ALL_LETTERS, 1, NumLetters)

BASE_CIRCLE_SIZE == 48
MIN_CIRCLE_SIZE == 36
\* MIN_DISTANCE_MULTIPLIER = 1.2, as tenths
MIN_DISTANCE_MULTIPLIER == 12
CIRCLES_PER_ROUND == MaxCircles
\* PLAY_AREA_WIDTH_PERCENT = 0.85, as a percentage
PLAY_AREA_WIDTH_PERCENT == 85
\* EDGE_SAFE_AREA = 0.05, as a percentage
EDGE_SAFE_AREA == 5

\* maxAttempts of generateValidPosition
maxAttempts == 100

\* pixels to length units (1/480 px)
Px(n) == 480 * n

\* viewport sizes (window.innerWidth, window.innerHeight) in px
Viewports == { <<0, 0>>, <<100, 100>>, <<120, 100>> }

\* the outcomes k / RandDen of Math.random(), as numerators
RandNums == 0..(RandDen - 1)

\* the outcomes of Math.random() in the position draws of the lifecycle
\* specifications
RoundDraws == {RandDen - 1}

---------------------------------------------------------------------------
(* Pure functions *)

Max(a, b) == IF a >= b THEN a ELSE b
Min(a, b) == IF a <= b THEN a ELSE b

\* Math.ceil(Math.sqrt(m)) for a natural number m
CeilSqrt(m) == CHOOSE k \in 0..m : k * k >= m /\ (k = 0 \/ (k - 1) * (k - 1) < m)

\* circleSize (useMemo), in px
circleSize(w) ==
    IF w = 0 THEN BASE_CIRCLE_SIZE
    ELSE IF w < 480 THEN MIN_CIRCLE_SIZE
    ELSE IF w < 768 THEN BASE_CIRCLE_SIZE - 4
    ELSE BASE_CIRCLE_SIZE

\* minDistance (useMemo), in length units
minDistance(w) == (Px(circleSize(w)) * MIN_DISTANCE_MULTIPLIER) \div 10

\* randomNumber(min, max) when Math.random() returns k / RandDen;
\* min and max in length units, Math.floor works on pixels
randomNumber(min, max, k) ==
    Px((k * (max - min + Px(1))) \div (RandDen * Px(1))) + min

\* mutant of wouldOverlap: a circle at distance exactly minDistance overlaps
wouldOverlap_Inclusive(x, y, existingCircles, w) ==
    \E i \in 1..Len(existingCircles) :
        LET dx == x - existingCircles[i].x
            dy == y - existingCircles[i].y
        IN  dx * dx + dy * dy <= minDistance(w) * minDistance(w)

\* wouldOverlap(x, y, existingCircles); w is the width minDistance was
\* memoised for
wouldOverlap(x, y, existingCircles, w) ==
    \E i \in 1..Len(existingCircles) :
        LET dx == x - existingCircles[i].x
            dy == y - existingCircles[i].y
        IN  dx * dx + dy * dy < minDistance(w) * minDistance(w)

\* the boundaries minX, maxX, minY, maxY of generateValidPosition
Bounds(totalWidth, totalHeight) ==
    LET playAreaWidth  == (Px(totalWidth) * PLAY_AREA_WIDTH_PERCENT) \div 100
        playAreaHeight == (Px(totalHeight) * 70) \div 100
        offsetX   == (Px(totalWidth) - playAreaWidth) \div 2
        offsetY   == (Px(totalHeight) * 15) \div 100
        safeAreaX == (Px(totalWidth) * EDGE_SAFE_AREA) \div 100
        safeAreaY == (Px(totalHeight) * EDGE_SAFE_AREA) \div 100
        half      == Px(circleSize(totalWidth)) \div 2
    IN  [minX |-> offsetX + Max(half, safeAreaX),
         maxX |-> offsetX + playAreaWidth - Max(half, safeAreaX),
         minY |-> offsetY + Max(half, safeAreaY),
         maxY |-> offsetY + playAreaHeight - Max(half, safeAreaY)]

\* the candidates { x: randomNumber(minX, maxX), y: randomNumber(minY, maxY) }
RandomCandidates(b, draws) ==
    { [x |-> randomNumber(b.minX, b.maxX, kx),
       y |-> randomNumber(b.minY, b.maxY, ky)] : kx \in draws, ky \in draws }

\* centre of grid cell (row, col) of the fallback grid
GridCell(b, gridSize, row, col) ==
    [x |-> b.minX + ((2 * col + 1) * (b.maxX - b.minX)) \div (2 * gridSize),
     y |-> b.minY + ((2 * row + 1) * (b.maxY - b.minY)) \div (2 * gridSize)]

\* the grid scan of generateValidPosition: the free cells in row-major order
FreeGridCells(existingCircles, b, w) ==
    LET gridSize == CeilSqrt(Len(existingCircles) + 1) + 1
        cellAt(n) == GridCell(b, gridSize, n \div gridSize, n % gridSize)
    IN  SelectSeq([n \in 1..(gridSize * gridSize) |-> cellAt(n - 1)],
                  LAMBDA p : ~wouldOverlap(p.x, p.y, existingCircles, w))

\* generateValidPosition(existingCircles, totalWidth, totalHeight): the set
\* of positions it can return when Math.random() draws from draws.  A non-overlapping random candidate can be
\* returned by the loop; when some candidate overlaps, all 100 attempts can
\* be rejected and the grid, then the last-resort candidate, is used.
generateValidPosition(existingCircles, totalWidth, totalHeight, draws) ==
    LET b        == Bounds(totalWidth, totalHeight)
        cands    == RandomCandidates(b, draws)
        accepted == { p \in cands : ~wouldOverlap(p.x, p.y, existingCircles, totalWidth) }
        free     == FreeGridCells(existingCircles, b, totalWidth)
    IN  accepted \cup
        (IF accepted = cands THEN {}
         ELSE IF Len(free) > 0 THEN { free[1] }
         ELSE cands)

\* mutant of Swap: the element at j is copied to i and not replaced
Swap_Overwrites(array, i, j) ==
    [n \in 1..Len(array) |-> IF n = i THEN array[j] ELSE array[n]]

\* array with the elements at positions i and j exchanged
Swap(array, i, j) ==
    [n \in 1..Len(array) |->
        IF n = i THEN array[j] ELSE IF n = j THEN array[i] ELSE array[n]]

\* the Fisher-Yates loop of shuffleArray from index i down, over every
\* outcome j = Math.floor(Math.random() * (i + 1))
RECURSIVE ShuffleFrom(_, _)
ShuffleFrom(newArray, i) ==
    IF i <= 1 THEN { newArray }
    ELSE UNION { ShuffleFrom(Swap(newArray, i, j), i - 1) : j \in 1..i }

shuffleArray(array) == ShuffleFrom(array, Len(array))

\* the forEach of generateNewRound: circles for the letters not yet placed
RECURSIVE PlaceCircles(_, _, _, _, _)
PlaceCircles(selectedLetters, newCircles, w, h, draws) ==
    IF Len(newCircles) = Len(selectedLetters) THEN { newCircles }
    ELSE UNION { PlaceCircles(selectedLetters,
                              Append(newCircles,
                                     [id |-> Len(newCircles),
                                      letter |-> selectedLetters[Len(newCircles) + 1],
                                      x |-> p.x, y |-> p.y,
                                      feedback |-> "none"]),
                              w, h, draws)
                 : p \in generateValidPosition(newCircles, w, h, draws) }

\* mutant of Rounds: the target letter is drawn from LETTERS, not read from
\* a placed circle
Rounds_IndependentTarget(w, h) ==
    UNION { UNION { { [circles |-> cs, target |-> LETTERS[t]] : t \in 1..Len(LETTERS) }
                    : cs \in PlaceCircles(SubSeq(sh, 1, Min(CIRCLES_PER_ROUND, Len(sh))),
                                          <<>>, w, h, RoundDraws) }
            : sh \in shuffleArray(LETTERS) }

\* the rounds generateNewRound can build for the memoised width and height:
\* the new circles and the letter of the target circle
Rounds(w, h) ==
    UNION { UNION { { [circles |-> cs, target |-> cs[t].letter] : t \in 1..Len(cs) }
                    : cs \in PlaceCircles(SubSeq(sh, 1, Min(CIRCLES_PER_ROUND, Len(sh))),
                                          <<>>, w, h, RoundDraws) }
            : sh \in shuffleArray(LETTERS) }

\* the rounds of every viewport, tabulated
RoundsOf == [vp \in Viewports |-> Rounds(vp[1], vp[2])]

---------------------------------------------------------------------------
(* State *)

\* the state as a record, so that a handler is a function on states
Cur ==
    [circles |-> circles, targetLetter |-> targetLetter, score |-> score,
     width |-> width, height |-> height, gameActive |-> gameActive,
     showSubmitForm |-> showSubmitForm, processingClick |-> processingClick,
     preparingNewRound |-> preparingNewRound,
     newRoundButtonDisabled |-> newRoundButtonDisabled, timers |-> timers,
     lastEvent |-> lastEvent, hitsAccepted |-> hitsAccepted,
     inFlight |-> inFlight, gens |-> gens,
     speech |-> [speech EXCEPT !.issued = NULL], form |-> form]

\* what the useCallback closures of one render captured
ClosureOf(s) ==
    [gameActive |-> s.gameActive, preparingNewRound |-> s.preparingNewRound,
     width |-> s.width, height |-> s.height]

NoClosure == [gameActive |-> FALSE, preparingNewRound |-> FALSE, width |-> 0, height |-> 0]

\* a pending setTimeout callback
Timer(kind, inc, cl, letter) == [kind |-> kind, inc |-> inc, cl |-> cl, letter |-> letter]

Schedule(s, t) == [s EXCEPT !.timers = @ (+) SetToBag({t})]
Unschedule(s, t) == [s EXCEPT !.timers = @ (-) SetToBag({t})]

Event(op, accepted, hit, id) == [op |-> op, accepted |-> accepted, hit |-> hit, id |-> id]

\* window.speechSynthesis with nothing to say; supported is
\* 'speechSynthesis' in window
NoSpeech(supported) ==
    [supported |-> supported, utterance |-> NULL, started |-> FALSE, issued |-> NULL]

\* the submit form of a game that has just been mounted
NoForm ==
    [playerName |-> <<>>, submitError |-> FALSE, submitting |-> FALSE,
     requests |-> <<>>, navigated |-> FALSE, failed |-> <<>>]

\* no call is being followed on its own
NoCall == [fn |-> "none", pc |-> "idle"]

\* no generateNewRound call is being followed step by step
NotPlacing ==
    [pc |-> "idle", w |-> 0, h |-> 0, newCircles |-> <<>>, paths |-> <<>>,
     attempts |-> 0, cell |-> 0, cand |-> [x |-> 0, y |-> 0], rejected |-> FALSE]

Init ==
    /\ circles = <<>>
    /\ targetLetter = NULL
    /\ score = 0
    /\ width = 0
    /\ height = 0
    /\ gameActive = TRUE
    /\ showSubmitForm = FALSE
    /\ processingClick = FALSE
    /\ preparingNewRound = FALSE
    /\ newRoundButtonDisabled = FALSE
    /\ timers = EmptyBag
    /\ lastEvent = Event("mount", TRUE, FALSE, -1)
    /\ hitsAccepted = 0
    /\ inFlight = [hits |-> 0, misses |-> 0]
    /\ gens = 0
    /\ placing = NotPlacing
    /\ speech = NoSpeech(FALSE)
    /\ form = NoForm
    /\ call = NoCall

\* the phases of the lifecycle controller, read off the state
Active == gameActive /\ ~processingClick /\ ~preparingNewRound /\ targetLetter # NULL
Idle == circles = <<>> /\ targetLetter = NULL /\ ~processingClick /\ ~preparingNewRound
ResolvingFeedback == processingClick /\ ~preparingNewRound
Transitioning == preparingNewRound

---------------------------------------------------------------------------
(* Speech *)

\* a pending setTimeout callback of the announcement: kind "speak" is the
\* 50 ms timer of generateNewRound, kind "retry" the 100 ms timer of
\* speakLetter, whose hasSpeechStarted is started and whose utterance is the
\* one speechSynthesis holds iff current
SpeechTimer(kind, letter, started, current) ==
    [kind |-> kind, inc |-> 0, cl |-> NoClosure, letter |-> letter,
     started |-> started, current |-> current]

\* the pending timers b, with every retry timer t replaced by f[t]
MapRetryTimers(b, f) ==
    LET ts == BagToSet(b)
        g(t) == IF t.kind = "retry" THEN f[t] ELSE t
        RECURSIVE Sum(_, _)
        Sum(S, u) == IF S = {} THEN 0
                     ELSE LET t == CHOOSE v \in S : TRUE
                          IN  (IF g(t) = u THEN CopiesIn(t, b) ELSE 0) + Sum(S \ {t}, u)
    IN  [u \in { g(t) : t \in ts } |-> Sum(ts, u)]

Detached(t) == [t EXCEPT !.current = FALSE]
Started(t) == IF t.current THEN [t EXCEPT !.started = TRUE] ELSE t

\* window.speechSynthesis.cancel(), where the browser has speechSynthesis
CancelSpeech(s) ==
    IF ~s.speech.supported THEN s
    ELSE [s EXCEPT !.speech.utterance = NULL,
                   !.speech.started = FALSE,
                   !.timers = MapRetryTimers(@, [t \in BagToSet(@) |-> Detached(t)])]

\* speakLetter(letter)
speakLetter(s, letter) ==
    IF ~s.speech.supported THEN s
    ELSE Schedule([CancelSpeech(s) EXCEPT !.speech.utterance = letter,
                                          !.speech.issued = letter],
                  SpeechTimer("retry", letter, FALSE, TRUE))

\* the setTimeout(..., 50) of the target-commit callback of generateNewRound
AnnounceLater(s, letter) ==
    IF ~s.speech.supported THEN s
    ELSE Schedule(s, SpeechTimer("speak", letter, FALSE, FALSE))

\* the callback of the setTimeout(..., 50): speakLetter(targetCircle.letter)
Announce(s, t) == speakLetter(Unschedule(s, t), t.letter)

\* the callback of the setTimeout(..., 100) of speakLetter
RetryElapsed(s, t) ==
    IF t.started THEN Unschedule(s, t)
    ELSE [CancelSpeech(Unschedule(s, t)) EXCEPT !.speech.utterance = t.letter,
                                                !.speech.issued = t.letter]

\* utterance.onstart
OnStart(s) ==
    [s EXCEPT !.speech.started = TRUE, !.timers = MapRetryTimers(@, [t \in BagToSet(@) |-> Started(t)])]

\* the utterance has been spoken to its end
OnEnd(s) == [s EXCEPT !.speech.utterance = NULL, !.speech.started = FALSE]

---------------------------------------------------------------------------
(* Handlers, as functions from a state to the next state *)

\* generateNewRound() of the render with closure cl, building round r
\* generateNewRound announcing the target when it sets the circles
generateNewRound_AnnouncesAtOnce(s, cl, r) ==
    IF ~cl.gameActive \/ cl.preparingNewRound THEN s
    ELSE AnnounceLater(Schedule([s EXCEPT !.preparingNewRound = TRUE,
                                          !.circles = r.circles,
                                          !.gens = @ + 1],
                                Timer("commit", 0, NoClosure, r.target)),
                       r.target)

generateNewRound(s, cl, r) ==
    IF ~cl.gameActive \/ cl.preparingNewRound THEN s
    ELSE Schedule([s EXCEPT !.preparingNewRound = TRUE,
                            !.circles = r.circles,
                            !.gens = @ + 1],
                  Timer("commit", 0, NoClosure, r.target))

\* mutant of CommitTarget: setPreparingNewRound(false) is missing
CommitTarget_KeepsPreparing(s, t) ==
    AnnounceLater([Unschedule(s, t) EXCEPT !.targetLetter = t.letter,
                                           !.inFlight = [hits |-> 0, misses |-> 0]],
                  t.letter)

\* the callback of the setTimeout(..., 100) of generateNewRound
CommitTarget(s, t) ==
    AnnounceLater([Unschedule(s, t) EXCEPT !.targetLetter = t.letter,
                                           !.preparingNewRound = FALSE,
                                           !.inFlight = [hits |-> 0, misses |-> 0]],
                  t.letter)

\* mutant of startNewRound: the score is incremented whatever scoreIncrement is
startNewRound_Scores(s, cl, scoreIncrement) ==
    IF cl.preparingNewRound THEN s
    ELSE Schedule([CancelSpeech(s) EXCEPT !.preparingNewRound = TRUE,
                                          !.circles = <<>>,
                                          !.targetLetter = NULL,
                                          !.score = @ + 1],
                  Timer("settle", 0, cl, NULL))

\* startNewRound(scoreIncrement) of the render with closure cl
\* startNewRound without setPreparingNewRound(true)
startNewRound_NotPreparing(s, cl, scoreIncrement) ==
    IF cl.preparingNewRound THEN s
    ELSE Schedule([CancelSpeech(s) EXCEPT !.circles = <<>>,
                                          !.targetLetter = NULL,
                                          !.score = IF scoreIncrement > 0 THEN @ + scoreIncrement ELSE @],
                  Timer("settle", 0, cl, NULL))

startNewRound(s, cl, scoreIncrement) ==
    IF cl.preparingNewRound THEN s
    ELSE Schedule([CancelSpeech(s) EXCEPT !.preparingNewRound = TRUE,
                                          !.circles = <<>>,
                                          !.targetLetter = NULL,
                                          !.score = IF scoreIncrement > 0 THEN @ + scoreIncrement ELSE @],
                  Timer("settle", 0, cl, NULL))

\* mutant of startAutomaticNewRound: the score is incremented after a Miss too
startAutomaticNewRound_AlwaysScores(s, cl, scoreIncrement) ==
    IF cl.preparingNewRound THEN s
    ELSE Schedule([CancelSpeech(s) EXCEPT !.preparingNewRound = TRUE,
                                          !.circles = <<>>,
                                          !.targetLetter = NULL,
                                          !.score = @ + 1],
                  Timer("settle", 0, cl, NULL))

\* mutant of startAutomaticNewRound: scoreIncrement is dropped
startAutomaticNewRound_DropsScore(s, cl, scoreIncrement) ==
    IF cl.preparingNewRound THEN s
    ELSE Schedule([CancelSpeech(s) EXCEPT !.preparingNewRound = TRUE,
                                          !.circles = <<>>,
                                          !.targetLetter = NULL],
                  Timer("settle", 0, cl, NULL))

\* mutant of startAutomaticNewRound: the circles and the target letter are
\* left on the board until the generator replaces them
startAutomaticNewRound_KeepsBoard(s, cl, scoreIncrement) ==
    IF cl.preparingNewRound THEN s
    ELSE Schedule([CancelSpeech(s) EXCEPT !.preparingNewRound = TRUE,
                                          !.score = IF scoreIncrement > 0 THEN @ + scoreIncrement ELSE @],
                  Timer("settle", 0, cl, NULL))

\* startAutomaticNewRound(scoreIncrement) of the render with closure cl
startAutomaticNewRound(s, cl, scoreIncrement) ==
    IF cl.preparingNewRound THEN s
    ELSE Schedule([CancelSpeech(s) EXCEPT !.preparingNewRound = TRUE,
                                          !.circles = <<>>,
                                          !.targetLetter = NULL,
                                          !.score = IF scoreIncrement > 0 THEN @ + scoreIncrement ELSE @],
                  Timer("settle", 0, cl, NULL))

\* the callback of the setTimeout(..., 100) of startNewRound and of
\* startAutomaticNewRound
\* the settle callback left pending after it has run (as of a setInterval)
Settle_Repeats(s, t, r) ==
    generateNewRound([s EXCEPT !.processingClick = FALSE], t.cl, r)

Settle(s, t, r) ==
    generateNewRound([Unschedule(s, t) EXCEPT !.processingClick = FALSE], t.cl, r)

\* mutant of MarkFeedback: the comparison of the ids is missing
MarkFeedback_All(prevCircles, id, feedback) ==
    [n \in 1..Len(prevCircles) |-> [prevCircles[n] EXCEPT !.feedback = feedback]]

\* setCircles(prev => prev.map(c => c.id === id ? {...c, feedback} : c))
MarkFeedback(prevCircles, id, feedback) ==
    [n \in 1..Len(prevCircles) |->
        IF prevCircles[n].id = id
        THEN [prevCircles[n] EXCEPT !.feedback = feedback]
        ELSE prevCircles[n]]

\* mutant of handleCircleClick: processingClick is not part of the guard
handleCircleClick_NoProcessingGuard(s, circle) ==
    IF ~s.gameActive \/ s.preparingNewRound \/ s.targetLetter = NULL
    THEN s
    ELSE IF circle.letter = s.targetLetter
    THEN Schedule([s EXCEPT !.processingClick = TRUE,
                            !.circles = MarkFeedback(@, circle.id, "correct"),
                            !.hitsAccepted = @ + 1,
                            !.inFlight.hits = @ + 1,
                            !.gens = 0],
                  Timer("feedback", 1, ClosureOf(s), NULL))
    ELSE Schedule([s EXCEPT !.processingClick = TRUE,
                            !.circles = MarkFeedback(@, circle.id, "incorrect"),
                            !.inFlight.misses = @ + 1,
                            !.gens = 0],
                  Timer("feedback", 0, ClosureOf(s), NULL))

\* mutant of handleCircleClick: gameActive is not part of the guard
handleCircleClick_NoGameActiveGuard(s, circle) ==
    IF s.processingClick \/ s.preparingNewRound \/ s.targetLetter = NULL
    THEN s
    ELSE IF circle.letter = s.targetLetter
    THEN Schedule([s EXCEPT !.processingClick = TRUE,
                            !.circles = MarkFeedback(@, circle.id, "correct"),
                            !.hitsAccepted = @ + 1,
                            !.inFlight.hits = @ + 1,
                            !.gens = 0],
                  Timer("feedback", 1, ClosureOf(s), NULL))
    ELSE Schedule([s EXCEPT !.processingClick = TRUE,
                            !.circles = MarkFeedback(@, circle.id, "incorrect"),
                            !.inFlight.misses = @ + 1,
                            !.gens = 0],
                  Timer("feedback", 0, ClosureOf(s), NULL))

\* mutant of handleCircleClick: the Hit branch increments the score itself
\* and defers no increment
handleCircleClick_ScoresAtClick(s, circle) ==
    IF ~s.gameActive \/ s.processingClick \/ s.preparingNewRound \/ s.targetLetter = NULL
    THEN s
    ELSE IF circle.letter = s.targetLetter
    THEN Schedule([s EXCEPT !.processingClick = TRUE,
                            !.circles = MarkFeedback(@, circle.id, "correct"),
                            !.score = @ + 1,
                            !.hitsAccepted = @ + 1,
                            !.inFlight.hits = @ + 1,
                            !.gens = 0],
                  Timer("feedback", 0, ClosureOf(s), NULL))
    ELSE Schedule([s EXCEPT !.processingClick = TRUE,
                            !.circles = MarkFeedback(@, circle.id, "incorrect"),
                            !.inFlight.misses = @ + 1,
                            !.gens = 0],
                  Timer("feedback", 0, ClosureOf(s), NULL))

\* handleCircleClick(circle)
handleCircleClick(s, circle) ==
    IF ~s.gameActive \/ s.processingClick \/ s.preparingNewRound \/ s.targetLetter = NULL
    THEN s
    ELSE IF circle.letter = s.targetLetter
    THEN Schedule([s EXCEPT !.processingClick = TRUE,
                            !.circles = MarkFeedback(@, circle.id, "correct"),
                            !.hitsAccepted = @ + 1,
                            !.inFlight.hits = @ + 1,
                            !.gens = 0],
                  Timer("feedback", 1, ClosureOf(s), NULL))
    ELSE Schedule([s EXCEPT !.processingClick = TRUE,
                            !.circles = MarkFeedback(@, circle.id, "incorrect"),
                            !.inFlight.misses = @ + 1,
                            !.gens = 0],
                  Timer("feedback", 0, ClosureOf(s), NULL))

\* mutant of FeedbackElapsed: when the feedback ends the same round goes on
FeedbackElapsed_Resumes(s, t) ==
    [Unschedule(s, t) EXCEPT !.processingClick = FALSE,
                             !.score = @ + t.inc,
                             !.inFlight = [hits |-> 0, misses |-> 0]]

\* the callback of the setTimeout(..., FEEDBACK_DURATION) of handleCircleClick
FeedbackElapsed(s, t) == startAutomaticNewRound(Unschedule(s, t), t.cl, t.inc)

\* mutant of handleNewRoundOnce: the guard on processingClick and
\* preparingNewRound is missing
handleNewRoundOnce_NoGuard(s, cl, pc) ==
    Schedule(startNewRound([s EXCEPT !.newRoundButtonDisabled = TRUE,
                                     !.gens = 0], cl, 0),
             Timer("enable", 0, NoClosure, NULL))

\* mutant of handleNewRoundOnce: the request takes the path of a circle
\* click (processingClick and the feedback delay) instead of startNewRound
handleNewRoundOnce_ViaFeedback(s, cl, pc) ==
    IF pc \/ cl.preparingNewRound THEN s
    ELSE Schedule(Schedule([s EXCEPT !.newRoundButtonDisabled = TRUE,
                                     !.processingClick = TRUE,
                                     !.gens = 0],
                           Timer("feedback", 0, cl, NULL)),
                  Timer("enable", 0, NoClosure, NULL))

\* handleNewRound without the processingClick half of its guard
handleNewRoundOnce_DuringFeedback(s, cl, pc) ==
    IF cl.preparingNewRound THEN s
    ELSE Schedule(startNewRound([s EXCEPT !.newRoundButtonDisabled = TRUE,
                                          !.gens = 0], cl, 0),
                  Timer("enable", 0, NoClosure, NULL))

\* one invocation of handleNewRound of the render with closure cl, whose
\* processingClick was pc
handleNewRoundOnce(s, cl, pc) ==
    IF pc \/ cl.preparingNewRound THEN s
    ELSE Schedule(startNewRound([s EXCEPT !.newRoundButtonDisabled = TRUE,
                                          !.gens = 0], cl, 0),
                  Timer("enable", 0, NoClosure, NULL))

\* n invocations of handleNewRound of the same render
RECURSIVE handleNewRound(_, _, _, _)
handleNewRound(s, cl, pc, n) ==
    IF n = 0 THEN s
    ELSE handleNewRound(handleNewRoundOnce(s, cl, pc), cl, pc, n - 1)

\* the callback of the setTimeout(..., 350) of handleNewRound
EnableButton(s, t) == [Unschedule(s, t) EXCEPT !.newRoundButtonDisabled = FALSE]

\* mutant of updateDimensions: the displayed circles are moved to the same
\* relative position in the new viewport
updateDimensions_Rescales(s, vp) ==
    [s EXCEPT !.width = vp[1], !.height = vp[2],
              !.circles = [n \in 1..Len(@) |->
                              IF s.width > 0 /\ s.height > 0
                              THEN [@[n] EXCEPT !.x = (@ * vp[1]) \div s.width,
                                                !.y = (@ * vp[2]) \div s.height]
                              ELSE @[n]]]

\* updateDimensions()
updateDimensions(s, vp) == [s EXCEPT !.width = vp[1], !.height = vp[2]]

\* handleShowSubmitForm()
handleShowSubmitForm(s) == [s EXCEPT !.gameActive = FALSE, !.showSubmitForm = TRUE]

\* mutant of handleSkipSubmit: cancelling the form resumes the game
handleSkipSubmit_Resumes(s) ==
    [s EXCEPT !.showSubmitForm = FALSE, !.gameActive = TRUE]

\* handleSkipSubmit()
handleSkipSubmit(s) == [s EXCEPT !.showSubmitForm = FALSE]

\* the submit form is rendered
SubmitFormRendered_Always(s) == TRUE

SubmitFormRendered(s) == ~s.gameActive /\ s.showSubmitForm

\* String.prototype.trim, on a name as a sequence of characters
RECURSIVE trim(_)
trim(n) ==
    IF n = <<>> THEN n
    ELSE IF Head(n) = " " THEN trim(Tail(n))
    ELSE IF n[Len(n)] = " " THEN trim(SubSeq(n, 1, Len(n) - 1))
    ELSE n

\* onChange of the name input
handleNameChange(s, n) ==
    [s EXCEPT !.form.playerName = n, !.form.submitError = FALSE]

\* mutant of handleSubmitScore: the name is tested and sent untrimmed
handleSubmitScore_Untrimmed(s) ==
    IF s.form.playerName = <<>>
    THEN [s EXCEPT !.form.submitError = TRUE]
    ELSE [s EXCEPT !.form.submitting = TRUE,
                   !.form.requests = Append(@, [name |-> s.form.playerName,
                                                score |-> s.score]),
                   !.form.failed = <<>>]

\* handleSubmitScore up to its await
handleSubmitScore(s) ==
    IF trim(s.form.playerName) = <<>>
    THEN [s EXCEPT !.form.submitError = TRUE]
    ELSE [s EXCEPT !.form.submitting = TRUE,
                   !.form.requests = Append(@, [name |-> trim(s.form.playerName),
                                                score |-> s.score]),
                   !.form.failed = <<>>]

\* the values the store hands back as `error` or throws: an Error with a
\* message, and a value that is not an instance of Error
ErrorValues ==
    { [isError |-> TRUE, message |-> "store message"],
      [isError |-> FALSE, message |-> "store message"] }

\* what awaiting a query on the scores table does: it resolves to
\* { data, error }, where null is the empty sequence, or it throws
Resolved(data, error) == [thrown |-> <<>>, data |-> data, error |-> error]
Rejected(e) == [thrown |-> <<e>>, data |-> <<>>, error |-> <<>>]

\* what the insert into the scores table can do
InsertOutcomes ==
    { Resolved(<<>>, <<>>) }
      \cup { Resolved(<<>>, <<e>>) : e \in ErrorValues }
      \cup { Rejected(e) : e \in ErrorValues }

\* how a function call completes: it returns a value or it throws one
Returns(value) == [thrown |-> <<>>, value |-> <<value>>]
Throws(e) == [thrown |-> <<e>>, value |-> <<>>]

\* error instanceof Error ? error.message : fallback
errorMessage(error, fallback) ==
    IF error.isError THEN error.message ELSE fallback

\* the try block of submitScore
submitScore_Try(reply) ==
    IF reply.thrown # <<>> THEN Throws(reply.thrown[1])
    ELSE IF reply.error # <<>> THEN Throws(reply.error[1])
    ELSE Returns([success |-> TRUE, error |-> <<>>])

\* mutant of submitScore: there is no catch block
submitScore_Rethrows(reply) == submitScore_Try(reply)

\* submitScore of lib/supabase.ts, by what the insert does
submitScore(reply) ==
    LET t == submitScore_Try(reply)
    IN  IF t.thrown = <<>> THEN t
        ELSE Returns([success |-> FALSE,
                      error |-> <<errorMessage(t.thrown[1], "Failed to submit score")>>])

\* the try block of getTopScores
getTopScores_Try(reply) ==
    IF reply.thrown # <<>> THEN Throws(reply.thrown[1])
    ELSE IF reply.error # <<>> THEN Throws(reply.error[1])
    ELSE Returns([scores |-> IF reply.data = <<>> THEN <<>> ELSE reply.data[1],
                  error |-> <<>>])

\* getTopScores of lib/supabase.ts, by what the select does
getTopScores(reply) ==
    LET t == getTopScores_Try(reply)
    IN  IF t.thrown = <<>> THEN t
        ELSE Returns([scores |-> <<>>,
                      error |-> <<errorMessage(t.thrown[1], "Failed to fetch scores")>>])

\* const { success, error } = await submitScore(...) inside the try block
\* of handleSubmitScore: a call that throws counts as a failed one
Awaited(completion) ==
    IF completion.thrown = <<>> THEN completion.value[1]
    ELSE [success |-> FALSE, error |-> <<>>]

\* handleSubmitScore from its await on, navigating also after a failure
SubmitSettled_AlwaysNavigates(s, result) ==
    [s EXCEPT !.form.navigated = TRUE,
              !.form.submitting = FALSE,
              !.form.requests = Tail(@)]

\* handleSubmitScore from its await on
SubmitSettled(s, result) ==
    IF result.success
    THEN [s EXCEPT !.form.navigated = TRUE,
                   !.form.submitting = FALSE,
                   !.form.requests = Tail(@)]
    ELSE [s EXCEPT !.form.submitError = TRUE,
                   !.form.submitting = FALSE,
                   !.form.requests = Tail(@),
                   !.form.failed = <<Head(s.form.requests).score>>]

---------------------------------------------------------------------------
(* Rendering *)

\* mutant of InitialRender: circles.length === 0 is not part of
\* isInitialRender
InitialRender_IgnoresCircles(s) ==
    /\ s.width > 0 /\ s.height > 0
    /\ ~s.preparingNewRound
    /\ s.gameActive

\* the condition under which the initialisation effect calls
\* generateNewRound()
InitialRender(s) ==
    /\ s.width > 0 /\ s.height > 0
    /\ s.circles = <<>> /\ ~s.preparingNewRound
    /\ s.gameActive

Commit(s) ==
    /\ circles' = s.circles
    /\ targetLetter' = s.targetLetter
    /\ score' = s.score
    /\ width' = s.width
    /\ height' = s.height
    /\ gameActive' = s.gameActive
    /\ showSubmitForm' = s.showSubmitForm
    /\ processingClick' = s.processingClick
    /\ preparingNewRound' = s.preparingNewRound
    /\ newRoundButtonDisabled' = s.newRoundButtonDisabled
    /\ timers' = s.timers
    /\ lastEvent' = s.lastEvent
    /\ hitsAccepted' = s.hitsAccepted
    /\ inFlight' = s.inFlight
    /\ gens' = s.gens
    /\ placing' = placing
    /\ speech' = s.speech
    /\ form' = s.form
    /\ call' = call

\* the dependencies of the initialisation effect (generateNewRound changes
\* with width, height, gameActive and preparingNewRound)
EffectDeps(s) ==
    <<s.width, s.height, Len(s.circles), s.preparingNewRound, s.gameActive>>

\* the cleanup of the initialisation effect, run by the render that follows
\* a change of its dependencies: window.speechSynthesis.cancel()
EffectCleanup(s) ==
    IF EffectDeps(s) # EffectDeps(Cur) THEN CancelSpeech(s) ELSE s

\* the render that follows a handler, with the initialisation effect
Render(s) ==
    LET e == EffectCleanup(s)
    IN  IF InitialRender(e)
        THEN \E r \in RoundsOf[<<e.width, e.height>>] : Commit(generateNewRound(e, ClosureOf(e), r))
        ELSE Commit(e)

-------------------------------------------------------------------------------------------------------------------------------------------------
(* Actions *)

\* the step of one event of the mounted component: the handler's result
\* post, the history record of the event, and the render
Step(post, op, id) ==
    /\ ~form.navigated
    /\ Render([post EXCEPT !.lastEvent =
                Event(op, [post EXCEPT !.lastEvent = lastEvent] # Cur,
                      post.hitsAccepted > hitsAccepted, id)])

\* the resize listener (and the first measurement after mount)
Resize ==
    \E vp \in Viewports :
        /\ <<width, height>> # vp
        /\ Step(updateDimensions(Cur, vp), "resize", -1)

\* a click on a displayed circle
CircleClick ==
    \E i \in 1..Len(circles) :
        LET post == handleCircleClick(Cur, circles[i])
        IN  /\ post.hitsAccepted <= MaxHits
            /\ Step(post, "click", circles[i].id)

\* the feedback timer of an accepted click fires
FeedbackTimer ==
    \E t \in BagToSet(timers) :
        /\ t.kind = "feedback"
        /\ Step(FeedbackElapsed(Cur, t), IF t.inc > 0 THEN "feedbackHit" ELSE "feedbackMiss", -1)

\* setTimeout callbacks run in the order they fall due. An announcement
\* timer falls due 50 ms after the target commit that scheduled it, and a
\* retry timer 100 ms after a speakLetter call made while that target was
\* set; a settle timer falls due 100 ms after a transition that started
\* after that commit, and the next commit timer 100 ms after that
NoneDueBefore(kinds) == \A u \in BagToSet(timers) : u.kind \notin kinds

\* the settle timer of startNewRound / startAutomaticNewRound fires
SettleTimer ==
    \E t \in BagToSet(timers) :
        /\ t.kind = "settle"
        /\ NoneDueBefore({"speak"})
        /\ \E r \in RoundsOf[<<t.cl.width, t.cl.height>>] :
               Step(Settle(Cur, t, r), "settleTimer", -1)

\* the target-commit timer of generateNewRound fires
CommitTimer ==
    \E t \in BagToSet(timers) :
        /\ t.kind = "commit"
        /\ NoneDueBefore({"speak", "retry"})
        /\ Step(CommitTarget(Cur, t), "commitTimer", -1)

\* the re-enable timer of handleNewRound fires
EnableTimer ==
    \E t \in BagToSet(timers) :
        /\ t.kind = "enable"
        /\ Step(EnableButton(Cur, t), "enableTimer", -1)

\* a click on the New Round button
NewRoundClick ==
    /\ ~newRoundButtonDisabled
    /\ Step(handleNewRound(Cur, ClosureOf(Cur), processingClick, 1), "newRound", -1)

\* several clicks on the New Round button dispatched in one event tick, in a
\* window that has a size: every invocation is the handler of the same render
NewRoundSameTick ==
    \E n \in 2..MaxSameTick :
        /\ width > 0 /\ height > 0
        /\ ~newRoundButtonDisabled
        /\ BagCardinality(timers) + 2 * n <= MaxPending
        /\ Step(handleNewRound(Cur, ClosureOf(Cur), processingClick, n), "newRoundSameTick", -1)

\* a click on the Submit button
ShowSubmitForm ==
    /\ gameActive \/ ~showSubmitForm
    /\ Step(handleShowSubmitForm(Cur), "showSubmitForm", -1)

\* a click on Cancel in the submit form
SkipSubmit ==
    /\ ~gameActive /\ showSubmitForm
    /\ Step(handleSkipSubmit(Cur), "skipSubmit", -1)

\* the names typed into the submit form
Names == { <<>>, <<" ">>, <<" ", "a">> }

\* the name input of the submit form is edited
EditName ==
    \E n \in Names :
        /\ SubmitFormRendered(Cur)
        /\ n # form.playerName
        /\ Step(handleNameChange(Cur, n), "editName", -1)

\* the submit form is submitted (its button is disabled while submitting)
SubmitForm ==
    /\ SubmitFormRendered(Cur)
    /\ ~form.submitting
    /\ Step(handleSubmitScore(Cur), "submit", -1)

\* the submitScore call in flight settles
SubmitSettles ==
    \E o \in InsertOutcomes :
        /\ form.requests # <<>>
        /\ Step(SubmitSettled(Cur, Awaited(submitScore(o))),
                IF Awaited(submitScore(o)).success THEN "submitSucceeded"
                ELSE "submitFailed", -1)

Next ==
    \/ Resize
    \/ CircleClick
    \/ FeedbackTimer
    \/ SettleTimer
    \/ CommitTimer
    \/ EnableTimer
    \/ NewRoundClick
    \/ ShowSubmitForm
    \/ SkipSubmit

\* events delivered by the browser, one per task
Spec == Init /\ [][Next]_vars

NextSubmit ==
    \/ Resize
    \/ CircleClick
    \/ FeedbackTimer
    \/ SettleTimer
    \/ CommitTimer
    \/ EnableTimer
    \/ NewRoundClick
    \/ ShowSubmitForm
    \/ SkipSubmit
    \/ EditName
    \/ SubmitForm
    \/ SubmitSettles

\* a game whose score is submitted to the scores store
SpecSubmit == Init /\ [][NextSubmit]_vars

NextTick ==
    \/ Resize
    \/ NewRoundClick
    \/ NewRoundSameTick
    \/ SettleTimer
    \/ CommitTimer
    \/ EnableTimer

\* the New Round button alone, where several of its clicks can be dispatched
\* in one event tick (synchronously, before React renders)
SpecTick == Init /\ [][NextTick]_vars

NextActive ==
    \/ Resize
    \/ CircleClick
    \/ FeedbackTimer
    \/ SettleTimer
    \/ CommitTimer
    \/ EnableTimer
    \/ NewRoundClick

\* a game that stays active (Submit is never clicked) and in which every
\* scheduled setTimeout callback eventually runs
SpecActiveFair ==
    /\ Init /\ [][NextActive]_vars
    /\ WF_vars(FeedbackTimer)
    /\ WF_vars(SettleTimer)
    /\ WF_vars(CommitTimer)
    /\ WF_vars(EnableTimer)

\* a whole session, with the Submit button and the Cancel button of the
\* submit form, in which every scheduled setTimeout callback eventually runs
SpecFair ==
    /\ Init /\ [][Next]_vars
    /\ WF_vars(FeedbackTimer)
    /\ WF_vars(SettleTimer)
    /\ WF_vars(CommitTimer)
    /\ WF_vars(EnableTimer)

---------------------------------------------------------------------------
(* The announcement of the target letter *)

\* the 50 ms announcement timer of generateNewRound fires
SpeakTimer ==
    \E t \in BagToSet(timers) :
        /\ t.kind = "speak"
        /\ Step(Announce(Cur, t), "speakTimer", -1)

\* the 100 ms retry timer of speakLetter fires
RetryTimer ==
    \E t \in BagToSet(timers) :
        /\ t.kind = "retry"
        /\ Step(RetryElapsed(Cur, t), "retryTimer", -1)

\* the speech engine starts the utterance it holds
UtteranceStart ==
    /\ speech.utterance # NULL
    /\ ~speech.started
    /\ Step(OnStart(Cur), "speechStart", -1)

\* the speech engine has spoken the utterance to its end
UtteranceEnd ==
    /\ speech.utterance # NULL
    /\ speech.started
    /\ Step(OnEnd(Cur), "speechEnd", -1)

\* the number of pending retry timers
PendingRetries ==
    LET RECURSIVE Sum(_)
        Sum(S) == IF S = {} THEN 0
                  ELSE LET t == CHOOSE v \in S : TRUE
                       IN  (IF t.kind = "retry" THEN CopiesIn(t, timers) ELSE 0) + Sum(S \ {t})
    IN  Sum(BagToSet(timers))

\* a click on the Repeat Letter button
RepeatLetter ==
    /\ targetLetter # NULL
    /\ PendingRetries < MaxRetries
    /\ Step(speakLetter(Cur, targetLetter), "repeatLetter", -1)

\* a browser that has speechSynthesis
InitSpeech ==
    /\ circles = <<>>
    /\ targetLetter = NULL
    /\ score = 0
    /\ width = 0
    /\ height = 0
    /\ gameActive = TRUE
    /\ showSubmitForm = FALSE
    /\ processingClick = FALSE
    /\ preparingNewRound = FALSE
    /\ newRoundButtonDisabled = FALSE
    /\ timers = EmptyBag
    /\ lastEvent = Event("mount", TRUE, FALSE, -1)
    /\ hitsAccepted = 0
    /\ inFlight = [hits |-> 0, misses |-> 0]
    /\ gens = 0
    /\ placing = NotPlacing
    /\ speech = NoSpeech(TRUE)
    /\ form = NoForm
    /\ call = NoCall

NextSpeech ==
    \/ Resize
    \/ CircleClick
    \/ FeedbackTimer
    \/ SettleTimer
    \/ CommitTimer
    \/ EnableTimer
    \/ NewRoundClick
    \/ SpeakTimer
    \/ RetryTimer
    \/ UtteranceStart
    \/ UtteranceEnd
    \/ RepeatLetter

\* an active game in a browser that has speechSynthesis
SpecSpeech == InitSpeech /\ [][NextSpeech]_vars

---------------------------------------------------------------------------
(* generateValidPosition, step by step *)

LifecycleVars ==
    <<circles, targetLetter, score, width, height, gameActive, showSubmitForm,
      processingClick, preparingNewRound, newRoundButtonDisabled, timers,
      lastEvent, hitsAccepted, inFlight, gens, speech, form>>

\* selectedLetters of the round whose placement is followed (the placement
\* does not read the letters)
PlacedLetters == SubSeq(LETTERS, 1, Min(CIRCLES_PER_ROUND, Len(LETTERS)))

\* the values of the argument existingCircles at the start: the empty
\* newCircles of generateNewRound and, where the boundaries have room for
\* it, one circle at distance exactly minDistance from the random candidate
\* (minX, minY)
ExistingInputs(w, h) ==
    { <<>> } \cup
    { << [id |-> 0, letter |-> PlacedLetters[1],
          x |-> b.minX + minDistance(w), y |-> b.minY,
          feedback |-> "none"] >>
      : b \in { c \in { Bounds(w, h) } : c.minX + minDistance(w) <= c.maxX } }

\* the viewports of the calls that are followed: those of the game and a
\* narrow one whose boundaries are 0.55 px apart in x (minX = 21.225,
\* maxX = 21.775)
PlaceViewports == Viewports \cup { <<43, 100>> }

\* entry of generateValidPosition(newCircles, w, h)
EnterCall(newCircles, paths, w, h) ==
    [pc |-> "loop", w |-> w, h |-> h, newCircles |-> newCircles, paths |-> paths,
     attempts |-> 0, cell |-> 0, cand |-> [x |-> 0, y |-> 0], rejected |-> FALSE]

InitPlace ==
    /\ circles = <<>>
    /\ targetLetter = NULL
    /\ score = 0
    /\ width = 0
    /\ height = 0
    /\ gameActive = TRUE
    /\ showSubmitForm = FALSE
    /\ processingClick = FALSE
    /\ preparingNewRound = FALSE
    /\ newRoundButtonDisabled = FALSE
    /\ timers = EmptyBag
    /\ lastEvent = Event("mount", TRUE, FALSE, -1)
    /\ hitsAccepted = 0
    /\ inFlight = [hits |-> 0, misses |-> 0]
    /\ gens = 0
    /\ speech = NoSpeech(FALSE)
    /\ form = NoForm
    /\ call = NoCall
    /\ placing \in UNION { { EnterCall(ex, [n \in 1..Len(ex) |-> "input"], vp[1], vp[2])
                             : ex \in ExistingInputs(vp[1], vp[2]) }
                           : vp \in PlaceViewports }

\* gridSize of the call in progress
GridSize == CeilSqrt(Len(placing.newCircles) + 1) + 1

\* return pos from generateValidPosition on the given path
Return(pos, path) ==
    placing' = [placing EXCEPT !.pc = path, !.cand = pos, !.rejected = FALSE]

\* one iteration of while (attempts < maxAttempts)
RandomAttempt ==
    /\ placing.pc = "loop" /\ placing.attempts < maxAttempts
    /\ \E c \in RandomCandidates(Bounds(placing.w, placing.h), RandNums) :
           IF ~wouldOverlap(c.x, c.y, placing.newCircles, placing.w)
           THEN Return(c, "random")
           ELSE placing' = [placing EXCEPT !.attempts = @ + 1, !.rejected = TRUE]
    /\ UNCHANGED <<LifecycleVars, call>>

\* the grid scan with columns outer and rows inner
GridScan_ColumnMajor ==
    /\ placing.pc = "loop" /\ placing.attempts = maxAttempts
    /\ placing.cell < GridSize * GridSize
    /\ LET c == GridCell(Bounds(placing.w, placing.h), GridSize,
                         placing.cell % GridSize, placing.cell \div GridSize)
       IN  IF ~wouldOverlap(c.x, c.y, placing.newCircles, placing.w)
           THEN Return(c, "grid")
           ELSE placing' = [placing EXCEPT !.cell = @ + 1, !.rejected = TRUE]
    /\ UNCHANGED <<LifecycleVars, call>>

\* one iteration of the grid scan, cell = row * gridSize + col
GridScan ==
    /\ placing.pc = "loop" /\ placing.attempts = maxAttempts
    /\ placing.cell < GridSize * GridSize
    /\ LET c == GridCell(Bounds(placing.w, placing.h), GridSize,
                         placing.cell \div GridSize, placing.cell % GridSize)
       IN  IF ~wouldOverlap(c.x, c.y, placing.newCircles, placing.w)
           THEN Return(c, "grid")
           ELSE placing' = [placing EXCEPT !.cell = @ + 1, !.rejected = TRUE]
    /\ UNCHANGED <<LifecycleVars, call>>

\* mutant of LastResort: an over-dense play area fails the call
LastResort_Fails ==
    /\ placing.pc = "loop" /\ placing.attempts = maxAttempts
    /\ placing.cell = GridSize * GridSize
    /\ placing' = [placing EXCEPT !.pc = "failed"]
    /\ UNCHANGED <<LifecycleVars, call>>

\* the last resort: one more random candidate, returned unconditionally
LastResort ==
    /\ placing.pc = "loop" /\ placing.attempts = maxAttempts
    /\ placing.cell = GridSize * GridSize
    /\ \E c \in RandomCandidates(Bounds(placing.w, placing.h), RandNums) :
           Return(c, "lastResort")
    /\ UNCHANGED <<LifecycleVars, call>>

\* newCircles.push({ id: index, letter, x, y }) and the next iteration of
\* the forEach
Push ==
    /\ placing.pc \in {"random", "grid", "lastResort"}
    /\ LET index == Len(placing.newCircles)
           newCircles == Append(placing.newCircles,
                                [id |-> index, letter |-> PlacedLetters[index + 1],
                                 x |-> placing.cand.x, y |-> placing.cand.y,
                                 feedback |-> "none"])
           paths == Append(placing.paths, placing.pc)
       IN  placing' = IF Len(newCircles) < Len(PlacedLetters)
                      THEN EnterCall(newCircles, paths, placing.w, placing.h)
                      ELSE [EnterCall(newCircles, paths, placing.w, placing.h)
                                EXCEPT !.pc = "done"]
    /\ UNCHANGED <<LifecycleVars, call>>

NextPlace ==
    \/ RandomAttempt
    \/ GridScan
    \/ LastResort
    \/ Push

\* one run of the forEach of generateNewRound; the call runs to completion
\* (JavaScript runs it without interruption)
SpecPlace == InitPlace /\ [][NextPlace]_vars /\ WF_vars(NextPlace)

---------------------------------------------------------------------------
(* The scores-store wrappers, call by call *)

\* the player names and the rows of the scores table
StoreNames == { <<"a">>, <<"a", "b">> }
Rows == { [name |-> n, score |-> sc] : n \in StoreNames, sc \in 0..MaxHits }

\* the arrays of at most n rows
RowArrays(n) == UNION { [1..k -> Rows] : k \in 0..n }

\* what the select on the scores table can do under .limit(limit): data is
\* null or an array of at most limit rows
SelectOutcomes(limit) ==
    { Resolved(<<>>, <<>>) }
      \cup { Resolved(<<rows>>, <<>>) : rows \in RowArrays(limit) }
      \cup { Resolved(<<>>, <<e>>) : e \in ErrorValues }
      \cup { Rejected(e) : e \in ErrorValues }

\* a call of submitScore(name, score) or getTopScores(limit) with what the
\* store will do
StoreCall(fn, args, reply) ==
    [fn |-> fn, args |-> args, reply |-> reply, pc |-> "called", result |-> <<>>]

InitStore ==
    /\ circles = <<>>
    /\ targetLetter = NULL
    /\ score = 0
    /\ width = 0
    /\ height = 0
    /\ gameActive = TRUE
    /\ showSubmitForm = FALSE
    /\ processingClick = FALSE
    /\ preparingNewRound = FALSE
    /\ newRoundButtonDisabled = FALSE
    /\ timers = EmptyBag
    /\ lastEvent = Event("mount", TRUE, FALSE, -1)
    /\ hitsAccepted = 0
    /\ inFlight = [hits |-> 0, misses |-> 0]
    /\ gens = 0
    /\ placing = NotPlacing
    /\ speech = NoSpeech(FALSE)
    /\ form = NoForm
    /\ call \in { StoreCall("submitScore", [name |-> n, score |-> sc], r)
                   : n \in StoreNames, sc \in 0..MaxHits, r \in InsertOutcomes }
                 \cup UNION { { StoreCall("getTopScores", [limit |-> l], r)
                                : r \in SelectOutcomes(l) }
                              : l \in 1..MaxRows }

\* the submitScore call completes
SubmitScoreCompletes ==
    /\ call.pc = "called" /\ call.fn = "submitScore"
    /\ call' = [call EXCEPT !.pc = "completed", !.result = <<submitScore(call.reply)>>]
    /\ UNCHANGED <<LifecycleVars, placing>>

\* the getTopScores call completes
GetTopScoresCompletes ==
    /\ call.pc = "called" /\ call.fn = "getTopScores"
    /\ call' = [call EXCEPT !.pc = "completed", !.result = <<getTopScores(call.reply)>>]
    /\ UNCHANGED <<LifecycleVars, placing>>

NextStore ==
    \/ SubmitScoreCompletes
    \/ GetTopScoresCompletes

\* one call of a scores-store wrapper, for every reply of the store
SpecStore == InitStore /\ [][NextStore]_vars

---------------------------------------------------------------------------
(* shuffleArray, step by step *)

\* entry of shuffleArray(array): const newArray = [...array]. The argument
\* array and the copy are two arrays; i is the loop index, counted from 1
EnterShuffle(array) ==
    [fn |-> "shuffleArray", input |-> array, array |-> array,
     newArray |-> array, i |-> Len(array), pc |-> "loop"]

\* mutant of ShuffleStep: newArray is the argument itself, not a copy
ShuffleStep_InPlace(c, j) ==
    [c EXCEPT !.newArray = Swap(@, c.i, j), !.array = Swap(@, c.i, j),
              !.i = @ - 1]

\* one iteration of the loop, with j the outcome of
\* Math.floor(Math.random() * (i + 1)), counted from 1
ShuffleStep(c, j) ==
    [c EXCEPT !.newArray = Swap(@, c.i, j), !.i = @ - 1]

\* the arrays passed to shuffleArray: letters, repeated ones included
ShuffleInputs == UNION { [1..k -> { LETTERS[n] : n \in 1..Len(LETTERS) }] : k \in 0..MaxArray }

InitShuffle ==
    /\ circles = <<>>
    /\ targetLetter = NULL
    /\ score = 0
    /\ width = 0
    /\ height = 0
    /\ gameActive = TRUE
    /\ showSubmitForm = FALSE
    /\ processingClick = FALSE
    /\ preparingNewRound = FALSE
    /\ newRoundButtonDisabled = FALSE
    /\ timers = EmptyBag
    /\ lastEvent = Event("mount", TRUE, FALSE, -1)
    /\ hitsAccepted = 0
    /\ inFlight = [hits |-> 0, misses |-> 0]
    /\ gens = 0
    /\ placing = NotPlacing
    /\ speech = NoSpeech(FALSE)
    /\ form = NoForm
    /\ call \in { EnterShuffle(a) : a \in ShuffleInputs }

\* an iteration of the for loop (i > 0 in the code's indices)
ShuffleIteration ==
    /\ call.pc = "loop" /\ call.i > 1
    /\ \E j \in 1..call.i : call' = ShuffleStep(call, j)
    /\ UNCHANGED <<LifecycleVars, placing>>

\* return newArray
ShuffleReturn ==
    /\ call.pc = "loop" /\ call.i <= 1
    /\ call' = [call EXCEPT !.pc = "returned"]
    /\ UNCHANGED <<LifecycleVars, placing>>

NextShuffle ==
    \/ ShuffleIteration
    \/ ShuffleReturn

\* one call of shuffleArray, for every outcome of its random draws
SpecShuffle == InitShuffle /\ [][NextShuffle]_vars

---------------------------------------------------------------------------
(* Properties *)

TypeOK ==
    /\ score \in Nat
    /\ targetLetter \in {NULL} \cup { LETTERS[i] : i \in 1..Len(LETTERS) }
    /\ Len(circles) \in {0, Min(CIRCLES_PER_ROUND, Len(LETTERS))}

\* the pending timers of the given kinds
Pending(kinds) ==
    LET ts == { t \in BagToSet(timers) : t.kind \in kinds }
        RECURSIVE Sum(_)
        Sum(S) == IF S = {} THEN 0
                  ELSE LET t == CHOOSE u \in S : TRUE
                       IN  CopiesIn(t, timers) + Sum(S \ {t})
    IN  Sum(ts)

\* the pending feedback timers of accepted Hit clicks
PendingHits ==
    LET ts == { t \in BagToSet(timers) : t.kind = "feedback" /\ t.inc > 0 }
        RECURSIVE Sum(_)
        Sum(S) == IF S = {} THEN 0
                  ELSE LET t == CHOOSE u \in S : TRUE
                       IN  CopiesIn(t, timers) + Sum(S \ {t})
    IN  Sum(ts)

\* the step is a circle click that the handler accepted / rejected
AcceptedClick == lastEvent'.op = "click" /\ lastEvent'.accepted
RejectedClick == lastEvent'.op = "click" /\ ~lastEvent'.accepted

\* the circle of the pre-state that the click of this step was made on
Clicked == CHOOSE c \in { circles[n] : n \in 1..Len(circles) } : c.id = lastEvent'.id

\* the circles are those of the pre-state, the clicked one marked fb
MarkedOnly(fb) ==
    /\ Len(circles') = Len(circles)
    /\ \A n \in 1..Len(circles) :
           circles'[n] = IF circles[n].id = lastEvent'.id
                         THEN [circles[n] EXCEPT !.feedback = fb]
                         ELSE circles[n]

\* C1: between two target commits at most one circle click is accepted: a
\* click is accepted only in Active, it ends Active, and every click
\* delivered while one accepted click is in flight is rejected.
C1_SingleResolution ==
    /\ [](inFlight.hits + inFlight.misses <= 1)
    /\ [][AcceptedClick => (Active /\ ~Active')]_vars
    /\ [][(lastEvent'.op = "click" /\ inFlight.hits + inFlight.misses > 0)
             => RejectedClick]_vars

\* a further click was delivered, and rejected, while an accepted click was
\* in flight
C1_Witness ==
    /\ inFlight.hits + inFlight.misses = 1
    /\ lastEvent.op = "click" /\ ~lastEvent.accepted

\* C2: a circle click delivered outside Active changes nothing: circles,
\* targetLetter, score, processingClick, preparingNewRound and the pending
\* timers are unchanged.
C2_RejectedClickNoChange ==
    [][(lastEvent'.op = "click" /\ ~Active)
          => UNCHANGED <<circles, targetLetter, score, width, height, gameActive,
                         showSubmitForm, processingClick, preparingNewRound,
                         newRoundButtonDisabled, timers, hitsAccepted, inFlight,
                         gens>>]_vars

\* a click was rejected because the game is not active, while a target is
\* displayed and no transition is in progress
C2_Witness ==
    /\ lastEvent.op = "click" /\ ~lastEvent.accepted
    /\ ~gameActive /\ ~processingClick /\ ~preparingNewRound /\ targetLetter # NULL

\* C3: an accepted click is a Hit iff the letter of the clicked circle is
\* targetLetter; on a Hit the clicked circle, and no other, gets feedback
\* 'correct' and processingClick becomes true.
C3_HitIffTargetLetter ==
    [][AcceptedClick =>
          /\ lastEvent'.hit <=> (Clicked.letter = targetLetter)
          /\ lastEvent'.hit => MarkedOnly("correct")
          /\ ~processingClick /\ processingClick' /\ ~preparingNewRound'
          /\ Pending({"feedback"})' = 1]_vars

\* a Hit was accepted: the state is ResolvingFeedback with one circle marked
\* 'correct'
C3_Witness ==
    /\ lastEvent.op = "click" /\ lastEvent.accepted /\ lastEvent.hit
    /\ processingClick
    /\ \E n \in 1..Len(circles) : circles[n].feedback = "correct"

\* C4 as claimed: the click that is accepted as a Hit increments the score.
C4_ScoreAtClick ==
    [][(AcceptedClick /\ lastEvent'.hit) => score' = score + 1]_vars

\* C4 as amended: an accepted Hit leaves the score unchanged in the
\* ResolvingFeedback state it produces; the score is incremented by 1 when
\* the feedback timer of that Hit fires.
C4_ScoreAtFeedbackEnd ==
    /\ [][AcceptedClick => score' = score]_vars
    /\ [][lastEvent'.op = "feedbackHit" => score' = score + 1]_vars
    /\ [](PendingHits > 0 => score < hitsAccepted)

\* the feedback timer of a Hit has fired and the score is 1
C4_Witness ==
    /\ lastEvent.op = "feedbackHit" /\ score = 1 /\ preparingNewRound

\* C5: an accepted click on a circle with another letter marks that circle
\* 'incorrect', moves to ResolvingFeedback and leaves the score unchanged
\* until the next target commit.
C5_MissKeepsScore ==
    /\ [][(AcceptedClick /\ Clicked.letter # targetLetter)
             => /\ MarkedOnly("incorrect")
                /\ processingClick' /\ ~preparingNewRound'
                /\ inFlight'.misses = 1 /\ inFlight'.hits = 0]_vars
    /\ [][(inFlight.misses > 0 /\ inFlight.hits = 0) => score' = score]_vars

\* the feedback timer of a Miss has fired after a Hit had been scored: the
\* board is cleared and the score is still 1
C5_Witness ==
    /\ lastEvent.op = "feedbackMiss" /\ inFlight.misses = 1
    /\ preparingNewRound /\ circles = <<>> /\ score = 1

\* C6: the score starts at 0, is a natural number, and every step that
\* changes it adds exactly 1 and is the feedback timer of an accepted Hit.
C6_ScoreMonotonic ==
    /\ score = 0
    /\ [](score \in Nat)
    /\ [][score' # score => (score' = score + 1 /\ lastEvent'.op = "feedbackHit")]_vars
    /\ [](score <= hitsAccepted)

\* the score was incremented, later a manual new round was accepted
C6_Witness ==
    /\ score = 1 /\ lastEvent.op = "newRound" /\ lastEvent.accepted

\* C7: every accepted Hit is counted exactly once: the score plus the number
\* of Hits whose feedback timer is pending equals the number of accepted
\* Hits.
C7_HitsCountedOnce == score + PendingHits = hitsAccepted

\* the feedback timer of the accepted Hit has fired and the Hit is counted
C7_Witness == hitsAccepted = 1 /\ PendingHits = 0 /\ score = 1

C9_OneRoundPerRequests ==
    /\ Pending({"settle"}) <= 1
    /\ gens <= 1

AcceptedNewRound == lastEvent'.op = "newRound" /\ lastEvent'.accepted

\* C11 as claimed: a manual new-round request takes effect only in Active; a
\* request handled in any other phase (Idle, ResolvingFeedback,
\* Transitioning) leaves the state and the pending timers unchanged.
C11_NewRoundOnlyInActive ==
    [][(lastEvent'.op = "newRound" /\ ~Active)
          => UNCHANGED <<circles, targetLetter, score, width, height, gameActive,
                         showSubmitForm, processingClick, preparingNewRound,
                         newRoundButtonDisabled, timers, hitsAccepted, inFlight,
                         gens>>]_vars

\* C12: a manual new-round request accepted in Active goes directly to
\* Transitioning (circles cleared, targetLetter null, preparingNewRound
\* true, processingClick false, no feedback timer), leaves the score
\* unchanged, no circle carries a feedback value unless a click was
\* accepted, and the score does not change until a Hit is accepted again.
C12_NewRoundDiscardsRound ==
    /\ [][(AcceptedNewRound /\ Active)
             => /\ circles' = <<>> /\ targetLetter' = NULL
                /\ preparingNewRound' /\ ~processingClick'
                /\ score' = score
                /\ Pending({"feedback"})' = 0
                /\ inFlight' = [hits |-> 0, misses |-> 0]]_vars
    /\ [][inFlight.hits = 0 => score' = score]_vars
    /\ [](inFlight.hits + inFlight.misses = 0
            => \A n \in 1..Len(circles) : circles[n].feedback = "none")

\* a manual new round was accepted in an active game whose score is 1: the
\* board is cleared, the state is Transitioning and the score is still 1
C12_Witness ==
    /\ lastEvent.op = "newRound" /\ lastEvent.accepted
    /\ gameActive /\ score = 1
    /\ circles = <<>> /\ targetLetter = NULL
    /\ preparingNewRound /\ ~processingClick

\* C13: the step in which the feedback timer fires, or a manual new round
\* is accepted, enters Transitioning with circles empty and targetLetter
\* null; while the settle timer is pending they stay empty and null, circles
\* reappear only in the settle step (the round generator) and targetLetter
\* only in the target-commit step.
C13_BoardClearedInTransition ==
    /\ [][(lastEvent'.op \in {"feedbackHit", "feedbackMiss"} \/ AcceptedNewRound)
             => (Transitioning' /\ circles' = <<>> /\ targetLetter' = NULL)]_vars
    /\ [](Pending({"settle"}) > 0
            => (Transitioning /\ circles = <<>> /\ targetLetter = NULL))
    /\ [][(Transitioning /\ circles = <<>> /\ circles' # <<>>)
             => lastEvent'.op = "settleTimer"]_vars
    /\ [][(Transitioning /\ targetLetter' # NULL)
             => lastEvent'.op = "commitTimer"]_vars

\* the feedback timer of a Hit has fired: the board is empty, the settle
\* timer is pending and the generator has not run yet
C13_Witness ==
    /\ lastEvent.op = "feedbackHit" /\ Transitioning
    /\ circles = <<>> /\ targetLetter = NULL
    /\ Pending({"settle"}) = 1 /\ Pending({"commit"}) = 0

\* the phase of the lifecycle controller, read off processingClick,
\* preparingNewRound and targetLetter (the end-of-game flag gameActive is
\* not a phase of the controller)
Phase ==
    IF preparingNewRound THEN "Transitioning"
    ELSE IF processingClick THEN "ResolvingFeedback"
    ELSE IF targetLetter # NULL THEN "Active"
    ELSE "Idle"

\* C14 as claimed: the phase changes only along Idle -> Active, Active ->
\* ResolvingFeedback, ResolvingFeedback -> Transitioning, Active ->
\* Transitioning and Transitioning -> Active.
C14_PhaseOrder ==
    [][Phase' # Phase =>
          <<Phase, Phase'>> \in { <<"Idle", "Active">>,
                                  <<"Active", "ResolvingFeedback">>,
                                  <<"ResolvingFeedback", "Transitioning">>,
                                  <<"Active", "Transitioning">>,
                                  <<"Transitioning", "Active">> }]_vars

\* C14 as amended: the phase changes only along Idle -> Transitioning (the
\* first generation, which sets preparingNewRound, or a new-round request),
\* Active -> ResolvingFeedback (accepted click), ResolvingFeedback ->
\* Transitioning (feedback timer), Active -> Transitioning (manual new
\* round) and Transitioning -> Active (target-commit timer).
C14_PhaseOrderViaTransitioning ==
    [][Phase' # Phase =>
          \/ /\ Phase = "Idle" /\ Phase' = "Transitioning"
             /\ lastEvent'.op \in {"resize", "newRound"}
          \/ /\ Phase = "Active" /\ Phase' = "ResolvingFeedback"
             /\ AcceptedClick
          \/ /\ Phase = "ResolvingFeedback" /\ Phase' = "Transitioning"
             /\ lastEvent'.op \in {"feedbackHit", "feedbackMiss"}
          \/ /\ Phase = "Active" /\ Phase' = "Transitioning"
             /\ AcceptedNewRound
          \/ /\ Phase = "Transitioning" /\ Phase' = "Active"
             /\ lastEvent'.op = "commitTimer"]_vars

\* a second round became Active after a Hit: every phase has been visited
C14_Witness ==
    /\ lastEvent.op = "commitTimer" /\ Phase = "Active"
    /\ hitsAccepted = 1 /\ score = 1 /\ PendingHits = 0

\* C15: in a game that stays active and whose timers all fire, every
\* accepted click (processingClick) and every accepted new-round request
\* (preparingNewRound) is eventually followed by an Active round with
\* circles on the board.
C15_NoStalledRound ==
    (processingClick \/ preparingNewRound) ~> (Active /\ circles # <<>>)

\* a round became Active after a Hit and after a manual new-round request
\* whose button is still disabled
C15_Witness ==
    /\ lastEvent.op = "commitTimer" /\ Active /\ circles # <<>>
    /\ hitsAccepted = 1 /\ newRoundButtonDisabled

C17_ResizeKeepsRound ==
    [][(lastEvent'.op = "resize" /\ Phase # "Idle")
          => /\ UNCHANGED <<circles, targetLetter, score, processingClick,
                            preparingNewRound, timers, gens>>
             /\ <<width, height>>' # <<width, height>>]_vars

\* the viewport was resized while the feedback of a click was displayed
C17_Witness ==
    /\ lastEvent.op = "resize" /\ Phase = "ResolvingFeedback"
    /\ circles # <<>> /\ Pending({"feedback"}) = 1

\* C18 as claimed, for the round that follows a click in a viewport that has
\* a size: the round generated by the settle callback after a click
\* (processingClick still true) is placed for the width and height of the
\* most recent resize, also when the resize happened while the feedback was
\* displayed or the board was cleared.
C18_NextRoundUsesLatestSize ==
    [][(gens' = gens + 1 /\ processingClick /\ width > 0 /\ height > 0)
          => \E r \in RoundsOf[<<width, height>>] : circles' = r.circles]_vars

\* squared distance of the centres of two circles
Dist2(p, q) == (p.x - q.x) * (p.x - q.x) + (p.y - q.y) * (p.y - q.y)

\* C19: in the circles placed so far every pair has centre distance >=
\* minDistance unless the later circle of the pair came from the last
\* resort, and a candidate whose distance to every existing circle is >=
\* minDistance (also exactly minDistance) is not rejected by wouldOverlap.
C19_NonOverlap ==
    LET cs == placing.newCircles
        md == minDistance(placing.w)
    IN  /\ \A i \in 1..Len(cs) : \A j \in (i + 1)..Len(cs) :
               placing.paths[j] # "lastResort" => Dist2(cs[i], cs[j]) >= md * md
        /\ placing.pc \in {"random", "grid"}
               => \A i \in 1..Len(cs) : Dist2(cs[i], placing.cand) >= md * md
        /\ placing.pc = "loop"
               => \A c \in RandomCandidates(Bounds(placing.w, placing.h), RandNums) :
                      (\A i \in 1..Len(cs) : Dist2(cs[i], c) >= md * md)
                          => ~wouldOverlap(c.x, c.y, cs, placing.w)

\* a round is complete in which a random candidate was accepted at distance
\* exactly minDistance from an existing circle
C19_Witness ==
    /\ placing.pc = "done"
    /\ \E i \in 1..Len(placing.newCircles) : \E j \in (i + 1)..Len(placing.newCircles) :
           /\ placing.paths[j] = "random"
           /\ Dist2(placing.newCircles[i], placing.newCircles[j])
                  = minDistance(placing.w) * minDistance(placing.w)

\* an upper bound on the steps of one generateValidPosition call and its
\* push: maxAttempts iterations, the cells of the largest grid, the return
PlaceBudget ==
    LET g == CeilSqrt(Len(PlacedLetters)) + 1
    IN  maxAttempts + g * g + 2

\* the steps the forEach can still take: decreases with every step
StepsLeft ==
    PlaceBudget * (Len(PlacedLetters) - Len(placing.newCircles))
      - (IF placing.pc = "loop" THEN placing.attempts + placing.cell
         ELSE IF placing.pc = "done" THEN 0
         ELSE PlaceBudget - 1)

\* C20: a call makes at most maxAttempts random attempts, scans the grid
\* only after them and over at most gridSize * gridSize cells, uses the last
\* resort only after every cell was rejected, and returns a position that
\* generateValidPosition can return; the call is always at one of its three
\* stages or has returned, a candidate can always be drawn, and every step
\* uses up the bounded number of steps left, so every call returns and every
\* run ends.
C20_AlwaysReturns ==
    /\ [](/\ placing.attempts <= maxAttempts
          /\ placing.cell <= GridSize * GridSize
          /\ placing.cell > 0 => placing.attempts = maxAttempts
          /\ placing.pc = "random" => placing.attempts < maxAttempts
          /\ placing.pc = "grid" => placing.cell < GridSize * GridSize
          /\ placing.pc = "lastResort" => placing.cell = GridSize * GridSize
          /\ placing.pc \in {"random", "grid", "lastResort"}
                => placing.cand \in generateValidPosition(placing.newCircles, placing.w,
                                                          placing.h, RandNums))
    /\ [](placing.pc \in {"loop", "random", "grid", "lastResort", "done"})
    /\ [](placing.pc = "loop"
            => RandomCandidates(Bounds(placing.w, placing.h), RandNums) # {})
    /\ [](StepsLeft \in Nat)
    /\ [][StepsLeft' < StepsLeft]_vars

\* a round is complete one of whose circles came from the last resort, after
\* maxAttempts rejected candidates and a grid without a free cell
C20_Witness ==
    /\ placing.pc = "done"
    /\ \E j \in 1..Len(placing.paths) : placing.paths[j] = "lastResort"

\* C21 as claimed: no round is generated from a play area that is not
\* positive: every step in which generateNewRound produces circles uses a
\* width and a height that are both positive (those of the closure of the
\* settle callback, or of the render whose initialisation effect generates).
C21_InvalidBoundsNoRound ==
    [][gens' = gens + 1
          => IF lastEvent'.op = "settleTimer"
             THEN \A t \in BagToSet(timers) :
                      t.kind = "settle" => (t.cl.width > 0 /\ t.cl.height > 0)
             ELSE width' > 0 /\ height' > 0]_vars

\* C22: circles is empty or a round of exactly min(CIRCLES_PER_ROUND,
\* |LETTERS|) circles whose ids are 0..n-1 in order and whose letters are
\* pairwise distinct members of LETTERS.
C22_RoundShape ==
    \/ circles = <<>>
    \/ /\ Len(circles) = Min(CIRCLES_PER_ROUND, Len(LETTERS))
       /\ \A n \in 1..Len(circles) :
              /\ circles[n].id = n - 1
              /\ \E l \in 1..Len(LETTERS) : circles[n].letter = LETTERS[l]
       /\ \A n1, n2 \in 1..Len(circles) :
              circles[n1].letter = circles[n2].letter => n1 = n2

\* a round is displayed whose first circle carries the last letter of LETTERS
C22_Witness ==
    /\ Len(circles) = Min(CIRCLES_PER_ROUND, Len(LETTERS))
    /\ circles[1].letter = LETTERS[Len(LETTERS)]
    /\ circles[1].id = 0 /\ targetLetter # NULL

\* the letters of the displayed circles of a state's board
DisplayedLetters(cs) == { cs[n].letter : n \in 1..Len(cs) }

\* the pending 50 ms announcement timer of a letter
SpeakTimerOf(l) == SpeechTimer("speak", l, FALSE, FALSE)

\* C23: the automatic announcement of a round comes after the round's
\* circles are committed and its target is set. The 50 ms announcement timer
\* of a letter is scheduled only by the step of the target-commit timer, which
\* leaves that letter as targetLetter, preparingNewRound false and a circle
\* with that letter on the board; and the step of an announcement timer
\* passes to speechSynthesis.speak() the letter of the timer it consumes.
C23_AnnounceAfterCommit ==
    [][/\ \A l \in { LETTERS[i] : i \in 1..Len(LETTERS) } :
              CopiesIn(SpeakTimerOf(l), timers') > CopiesIn(SpeakTimerOf(l), timers)
                  => /\ lastEvent'.op = "commitTimer"
                     /\ targetLetter' = l
                     /\ ~preparingNewRound'
                     /\ l \in DisplayedLetters(circles')
       /\ lastEvent'.op = "speakTimer"
              => /\ speech'.issued # NULL
                 /\ CopiesIn(SpeakTimerOf(speech'.issued), timers')
                        = CopiesIn(SpeakTimerOf(speech'.issued), timers) - 1]_vars

\* the announcement timer has announced the target of the displayed round
C23_Witness ==
    /\ lastEvent.op = "speakTimer"
    /\ speech.issued # NULL
    /\ speech.issued = targetLetter
    /\ targetLetter \in DisplayedLetters(circles)
    /\ ~preparingNewRound

\* C24: starting a round transition cancels every pending announcement of
\* the outgoing round. A letter is passed to speechSynthesis.speak() only
\* while no transition is in progress, and it is the letter of the round
\* that is current then: neither the 50 ms announcement timer nor the 100 ms
\* retry timer of the outgoing round speaks once the transition has started.
C24_TransitionCancelsAnnouncements ==
    speech.issued # NULL => (~preparingNewRound /\ speech.issued = targetLetter)

\* C25: the scores store is invoked only at game end. A step that calls
\* submitScore is taken with gameActive false and the submit form open, and
\* leaves the game inactive; and the steps of handleSubmitScore (the call and
\* the handling of its result) leave circles, targetLetter, score,
\* processingClick and preparingNewRound as they were.
C25_SubmitOnlyAtGameEnd ==
    [][/\ Len(form'.requests) > Len(form.requests)
              => /\ ~gameActive /\ showSubmitForm
                 /\ ~gameActive'
       /\ lastEvent'.op \in {"submit", "submitSucceeded", "submitFailed"}
              => UNCHANGED <<circles, targetLetter, score, processingClick,
                             preparingNewRound>>]_vars

\* submitScore has been called for a game that ended with a round displayed
C25_Witness ==
    /\ lastEvent.op = "submit"
    /\ form.requests # <<>>
    /\ ~gameActive
    /\ circles # <<>>
    /\ targetLetter # NULL

\* the step in which a submitScore call settles as failed leaves the score
\* and the form as they were, sets the error flag, ends submitting and does
\* not navigate; and only the step of a successful call navigates
FailureKeepsForm ==
    /\ lastEvent'.op = "submitFailed"
           => /\ score' = score
              /\ showSubmitForm' = showSubmitForm /\ gameActive' = gameActive
              /\ form'.submitError
              /\ ~form'.submitting
              /\ ~form'.navigated
              /\ form'.playerName = form.playerName
    /\ (form'.navigated /\ ~form.navigated) => lastEvent'.op = "submitSucceeded"

\* the call that follows a failed call sends the score the failed call sent
ResubmitsSameScore ==
    (Len(form'.requests) > Len(form.requests) /\ form.failed # <<>>)
        => form'.requests[Len(form'.requests)].score = form.failed[1]

\* the failure handling of handleSubmitScore, without what happens between
\* the failed call and the next one
C26_FailureHandling == [][FailureKeepsForm]_vars

\* C26: a failed score submission is recoverable. When a submitScore call
\* fails the score is unchanged, the form stays as it was with the error
\* flag set, submitting is false again and there is no navigation; the next
\* submission sends the same score as the failed one; and navigation happens
\* only when a call has succeeded.
C26_FailedSubmissionRecoverable ==
    [][FailureKeepsForm /\ ResubmitsSameScore]_vars

\* the centre of the cell-th cell, counted row by row, of the grid of
\* ceil(sqrt(n + 1)) + 1 cells per side over the boundaries of the call in
\* progress, n being the number of existing circles
RowMajorCentre(cell) ==
    LET g == CeilSqrt(Len(placing.newCircles) + 1) + 1
    IN  GridCell(Bounds(placing.w, placing.h), g, cell \div g, cell % g)

\* that centre is at distance >= minDistance from every existing circle
CellFree(cell) ==
    \A i \in 1..Len(placing.newCircles) :
        Dist2(RowMajorCentre(cell), placing.newCircles[i])
            >= minDistance(placing.w) * minDistance(placing.w)

\* C27: fallback ordering of generateValidPosition. A random candidate is
\* returned within the 100 attempts and before any grid cell is looked at;
\* the grid is consulted only after 100 rejected random candidates; the
\* position returned from the grid is the centre of the first cell, in
\* row-major order over a grid of ceil(sqrt(n + 1)) + 1 cells per side, that
\* is at distance >= minDistance from every existing circle; and the
\* unconditional candidate is returned only when every cell was rejected.
C27_FallbackOrder ==
    LET g == CeilSqrt(Len(placing.newCircles) + 1) + 1
    IN  /\ placing.pc = "random"
               => placing.attempts < maxAttempts /\ placing.cell = 0
        /\ (placing.cell > 0 \/ placing.pc \in {"grid", "lastResort"})
               => placing.attempts = maxAttempts
        /\ placing.pc = "loop"
               => \A c \in 0..(placing.cell - 1) : ~CellFree(c)
        /\ placing.pc = "grid"
               => /\ placing.cell < g * g
                  /\ placing.cand = RowMajorCentre(placing.cell)
                  /\ CellFree(placing.cell)
                  /\ \A c \in 0..(placing.cell - 1) : ~CellFree(c)
        /\ placing.pc = "lastResort"
               => \A c \in 0..(g * g - 1) : ~CellFree(c)

\* a grid position was returned from a cell off the diagonal, after cells
\* before it were rejected
C27_Witness ==
    /\ placing.pc = "grid"
    /\ placing.cell > 0
    /\ placing.cell \div GridSize # placing.cell % GridSize
    /\ placing.newCircles # <<>>

\* C28: every position returned by generateValidPosition, on any of its
\* three paths, lies inside the inset-adjusted rectangle
\* minX <= x <= maxX, minY <= y <= maxY, in every viewport for which
\* minX <= maxX and minY <= maxY.
C28_ReturnedInsideBounds ==
    LET b == Bounds(placing.w, placing.h)
    IN  (/\ placing.pc \in {"random", "grid", "lastResort"}
         /\ b.minX <= b.maxX /\ b.minY <= b.maxY)
            => /\ b.minX <= placing.cand.x /\ placing.cand.x <= b.maxX
               /\ b.minY <= placing.cand.y /\ placing.cand.y <= b.maxY

\* the indices of the circles of a board that show feedback
FeedbackAt(cs) == { n \in 1..Len(cs) : cs[n].feedback # "none" }

\* C29: the feedback invariant. In every state at most one circle has
\* feedback, it has it only while processingClick is true, and its feedback
\* is "correct" exactly when its letter is the target letter. Feedback
\* appears only in the step of an accepted click, on the clicked circle; and
\* while a circle has feedback the board and the target change only in the
\* step of the feedback timer, which clears the board.
C29_FeedbackInvariant ==
    /\ [](/\ Cardinality(FeedbackAt(circles)) <= 1
          /\ FeedbackAt(circles) # {} => processingClick
          /\ \A n \in FeedbackAt(circles) :
                 /\ circles[n].feedback \in {"correct", "incorrect"}
                 /\ circles[n].feedback = "correct"
                        <=> circles[n].letter = targetLetter)
    /\ [][/\ (FeedbackAt(circles) = {} /\ FeedbackAt(circles') # {})
                 => /\ lastEvent'.op = "click" /\ lastEvent'.accepted
                    /\ \A n \in FeedbackAt(circles') : circles'[n].id = lastEvent'.id
          /\ (FeedbackAt(circles) # {}
                  /\ (circles' # circles \/ targetLetter' # targetLetter))
                 => /\ lastEvent'.op \in {"feedbackHit", "feedbackMiss"}
                    /\ circles' = <<>>]_vars

\* a Miss is shown on one circle of two, and has stayed through a later
\* event
C29_Witness ==
    /\ \E n \in FeedbackAt(circles) : circles[n].feedback = "incorrect"
    /\ Cardinality(FeedbackAt(circles)) < Len(circles)
    /\ processingClick
    /\ lastEvent.op # "click"

\* no round exists and no transition is in progress
NoRound == circles = <<>> /\ ~preparingNewRound

\* C30: the initial start. An active game in a window that has a size is
\* never left in Idle: the initialisation effect generates the first round in
\* the render in which width and height become positive. A round generated
\* by that effect (in a step that is not a settle timer's) is generated from
\* Idle, in a window that has a size and an active game, and leaves circles
\* displayed and a transition in progress. And Idle is never entered again,
\* so the effect generates once and never while a round exists or a
\* transition is in progress.
C30_InitialStart ==
    /\ [](~(NoRound /\ width > 0 /\ height > 0 /\ gameActive))
    /\ [][/\ (gens' = gens + 1 /\ lastEvent'.op # "settleTimer")
                 => /\ NoRound /\ targetLetter = NULL
                    /\ width' > 0 /\ height' > 0 /\ gameActive'
                    /\ circles' # <<>> /\ preparingNewRound'
          /\ ~NoRound => ~NoRound']_vars

\* the effect has generated the first round, and a later resize has run the
\* effect again with that round active
C30_Witness ==
    /\ lastEvent.op = "resize"
    /\ circles # <<>>
    /\ targetLetter # NULL
    /\ ~preparingNewRound
    /\ gameActive
    /\ gens = 1

----------------------------------------------------------------------------
(* The final score *)

\* C32: once handleShowSubmitForm has deactivated the game (gameActive is
\* false) score never changes again, whatever click, feedback timer or
\* transition was pending at the deactivation, and every score passed to
\* submitScore is the score the form shows
C32_FinalScoreFinal ==
    /\ [](\A n \in 1..Len(form.requests) : form.requests[n].score = score)
    /\ [][~gameActive => score' = score]_vars

\* C33: no round is generated while the game is inactive. In a step taken
\* with gameActive false the displayed circles change only by being cleared
\* and no generation is added, also when the step is the settle timer of a
\* transition that a click or a new-round request started before the game
\* was deactivated
C33_NoRoundWhileInactive ==
    [][~gameActive => /\ gens' <= gens
                      /\ (circles' # circles => circles' = <<>>)]_vars

\* C34: when every scheduled timer eventually fires, processingClick and
\* preparingNewRound, once true, eventually become false again, whatever
\* clicks, new-round requests, resizes, openings and cancellings of the
\* submit form happen
C34_GuardsReleased ==
    /\ processingClick ~> ~processingClick
    /\ preparingNewRound ~> ~preparingNewRound

\* C35: gameActive is absorbing. It is true at the start, becomes false only
\* in the step of handleShowSubmitForm and is never true again: cancelling
\* the submit form only clears showSubmitForm. So once the form has been
\* opened no circle click is accepted any more.
C35_GameActiveAbsorbing ==
    /\ [](lastEvent.op = "mount" => gameActive)
    /\ [][/\ (gameActive /\ ~gameActive') => lastEvent'.op = "showSubmitForm"
          /\ ~gameActive => ~gameActive'
          /\ lastEvent'.op = "skipSubmit"
                 => /\ ~showSubmitForm'
                    /\ gameActive' = gameActive
                    /\ <<circles, targetLetter, score, processingClick,
                          preparingNewRound, timers>>'
                           = <<circles, targetLetter, score, processingClick,
                               preparingNewRound, timers>>
          /\ ~gameActive => ~AcceptedClick]_vars

\* a click on a circle of a complete round was rejected after the submit
\* form had been opened and cancelled
C35_Witness ==
    /\ lastEvent.op = "click" /\ ~lastEvent.accepted
    /\ ~gameActive /\ ~showSubmitForm
    /\ circles # <<>> /\ targetLetter # NULL
    /\ ~processingClick /\ ~preparingNewRound

----------------------------------------------------------------------------
(* The player name *)

\* a name of n blanks
Blanks(n) == [k \in 1..n |-> " "]

\* name is typed without its leading and trailing blanks
TrimmedOf(name, typed) ==
    /\ name # <<>> => (name[1] # " " /\ name[Len(name)] # " ")
    /\ \E i, j \in 0..Len(typed) : typed = Blanks(i) \o name \o Blanks(j)

\* C36: a submission with an empty or whitespace-only player name is
\* rejected locally: submitError is set, submitScore is not called,
\* submitting stays false, there is no navigation and the score is
\* unchanged. Every name passed to submitScore is the typed name without its
\* leading and trailing blanks, and is not empty.
C36_BlankNameRejected ==
    [][lastEvent'.op = "submit"
          => IF \A k \in 1..Len(form.playerName) : form.playerName[k] = " "
             THEN /\ form'.submitError
                  /\ form'.requests = form.requests
                  /\ ~form'.submitting
                  /\ ~form'.navigated
                  /\ score' = score
             ELSE /\ form'.requests # <<>>
                  /\ LET sent == form'.requests[Len(form'.requests)].name
                     IN  sent # <<>> /\ TrimmedOf(sent, form.playerName)]_vars

\* a whitespace-only name was submitted with a score of 1 and was rejected
C36_Witness ==
    /\ lastEvent.op = "submit"
    /\ form.playerName = <<" ">>
    /\ form.submitError /\ ~form.submitting /\ ~form.navigated
    /\ form.requests = <<>>
    /\ score = 1

----------------------------------------------------------------------------
(* The scores store *)

\* the store reported an error or the query threw
StoreFailed(reply) == reply.thrown # <<>> \/ reply.error # <<>>

\* C37: the scores-store wrappers report errors as values and never throw.
\* A completed submitScore call has returned {success: true} without an
\* error when the insert succeeded, and {success: false, error: message}
\* when the store reported an error or the query threw. A completed
\* getTopScores call has returned the fetched rows (the empty list when the
\* store returned no data) without an error on success, and
\* {scores: [], error: message} when the store reported an error or the
\* query threw.
C37_ErrorsAsValues ==
    call.pc = "completed" =>
        LET completion == call.result[1]
        IN  /\ completion.thrown = <<>>
            /\ completion.value # <<>>
            /\ call.fn = "submitScore" =>
                   LET v == completion.value[1]
                   IN  IF StoreFailed(call.reply)
                       THEN /\ ~v.success
                            /\ v.error \in { <<"store message">>,
                                              <<"Failed to submit score">> }
                       ELSE v.success /\ v.error = <<>>
            /\ call.fn = "getTopScores" =>
                   LET v == completion.value[1]
                   IN  IF StoreFailed(call.reply)
                       THEN /\ v.scores = <<>>
                            /\ v.error \in { <<"store message">>,
                                              <<"Failed to fetch scores">> }
                       ELSE /\ v.error = <<>>
                            /\ call.reply.data = <<>> => v.scores = <<>>
                            /\ call.reply.data # <<>> => v.scores = call.reply.data[1]

\* a getTopScores call whose query threw has returned an empty list and a
\* message
C37_Witness ==
    /\ call.pc = "completed" /\ call.fn = "getTopScores"
    /\ call.reply.thrown # <<>>
    /\ call.result[1].thrown = <<>>
    /\ call.result[1].value[1].scores = <<>>
    /\ call.result[1].value[1].error # <<>>

----------------------------------------------------------------------------
(* shuffleArray *)

\* the number of positions of a that hold x
Occurrences(a, x) == Cardinality({ n \in 1..Len(a) : a[n] = x })

\* a and b have the same length and the same elements with the same
\* multiplicities
IsPermutation(a, b) ==
    /\ Len(a) = Len(b)
    /\ \A x \in { a[n] : n \in 1..Len(a) } \cup { b[n] : n \in 1..Len(b) } :
           Occurrences(a, x) = Occurrences(b, x)

\* C38: shuffleArray returns a permutation of its argument (same length,
\* same elements with the same multiplicities) for every input array and
\* every outcome of the random draws, and leaves the argument array itself
\* unmodified.
C38_ShufflePermutes ==
    /\ call.array = call.input
    /\ IsPermutation(call.newArray, call.input)
    /\ call.pc = "returned" => call.newArray \in shuffleArray(call.input)
    /\ \A r \in shuffleArray(call.input) : IsPermutation(r, call.input)

\* an array with a repeated element was returned in another order
C38_Witness ==
    /\ call.pc = "returned"
    /\ Len(call.input) = 3
    /\ call.input[1] = call.input[2] /\ call.input[2] # call.input[3]
    /\ call.newArray # call.input
    /\ call.array = call.input

====
